---------------------------- MODULE Spec2Model ----------------------------
(***************************************************************************)
(* The authentication app of djangoauth: the CustomUser / Address / Role / *)
(* RolePermission stores (authentication/models.py), the user factory      *)
(* CustomUserManager, the permission queries of CustomUser and the         *)
(* post_save hook create_user_address (authentication/signals.py).         *)
(*                                                                         *)
(* Python strings that the code transforms (e-mail addresses) are tuples   *)
(* of one-character strings, so that strip / rsplit / lower are computed.  *)
(* Strings that are only compared (role names, name_values) are strings.   *)
(***************************************************************************)
EXTENDS Integers, Sequences, FiniteSets, TLC

VARIABLES
    users,        \* CustomUser table: pk -> row
    addresses,    \* Address table: set of pks (every column of a row is "")
    roles,        \* Role table: pk -> [name, permissions (set of RolePermission pks)]
    perms,        \* RolePermission table: pk -> [name_value]
    user_role,    \* CustomUser.role through table: set of <<user pk, role pk>>
    nextUserId,   \* AutoField sequence of CustomUser
    nextAddrId,   \* AutoField sequence of Address
    pc,           \* position of the running call: "idle", "post_save", "resave"
    call,         \* the running (pc # "idle") or last finished call: [op, args, status]
    instance,     \* the in-memory model instance the call works on
    created,      \* the `created` argument of the pending post_save signal
    made,         \* Address pks created by the hook during the call
    ret,          \* what the last call returned, if a has_role / has_permission
    ret_list      \* what the last call returned, if a get_all_permissions

vars == <<users, addresses, roles, perms, user_role, nextUserId, nextAddrId,
          pc, call, instance, created, made, ret, ret_list>>

db == <<users, addresses, roles, perms, user_role, nextUserId, nextAddrId>>

-----------------------------------------------------------------------------
(* Bounds *)

\* Number of CustomUser rows ever inserted in a behaviour.
MaxUsers == 2

\* Number of Role rows and of RolePermission rows in the query specification.
MaxRoles == 2

MaxPerms == 2

-----------------------------------------------------------------------------
(* Python values *)

\* Python None / SQL NULL in a string-valued position.
None == "<None>"

\* None passed where an e-mail string (a tuple of characters) is expected: a
\* one-element tuple that is no string, since "<None>" is no character.
NoneEmail == <<None>>

\* A NULL foreign key (CustomUser.address, null=True); pks start at 1.
NULL == 0

\* A plausible slip: `if email is None` in place of `if not email`.
Truthy_noneonly(email) == email # NoneEmail

\* Python truthiness of an e-mail argument: None and "" are falsy.
Truthy(email) == email # NoneEmail /\ email # <<>>

\* str.lower() on the characters used here.
Lower(c) ==
    CASE c = "A" -> "a"
      [] c = "B" -> "b"
      [] c = "X" -> "x"
      [] OTHER -> c

LowerStr(s) == [i \in 1..Len(s) |-> Lower(s[i])]

RECURSIVE LStrip(_)
LStrip(s) == IF s # <<>> /\ s[1] = " " THEN LStrip(Tail(s)) ELSE s

RECURSIVE RStrip(_)
RStrip(s) ==
    IF s # <<>> /\ s[Len(s)] = " " THEN RStrip(SubSeq(s, 1, Len(s) - 1)) ELSE s

\* str.strip()
Strip(s) == RStrip(LStrip(s))

\* str.rfind(c) + 1: the last position of c in s, 0 when absent.
RFind(s, c) ==
    IF \E i \in 1..Len(s) : s[i] = c
    THEN CHOOSE i \in 1..Len(s) : s[i] = c /\ \A j \in (i+1)..Len(s) : s[j] # c
    ELSE 0

\* A plausible slip: lower-casing nothing.
normalize_email_keepcase(email) ==
    LET e == IF email = NoneEmail THEN <<>> ELSE email
        t == Strip(e)
        i == RFind(t, "@")
    IN  IF i = 0 THEN e ELSE t

\* BaseUserManager.normalize_email: `email or ""`, then, when the stripped
\* string splits at its last "@", name + "@" + domain.lower(); a string
\* without "@" is returned as given (not stripped).
normalize_email(email) ==
    LET e == IF email = NoneEmail THEN <<>> ELSE email
        t == Strip(e)
        i == RFind(t, "@")
    IN  IF i = 0
        THEN e
        ELSE SubSeq(t, 1, i - 1) \o <<"@">> \o LowerStr(SubSeq(t, i + 1, Len(t)))

\* AbstractBaseUser.set_password: the stored value is a hash of the raw
\* password; None gives an unusable password.
set_password(raw) == IF raw = None THEN "!" ELSE "hash$" \o raw

-----------------------------------------------------------------------------
(* extra_fields dictionaries *)

EmptyDict == <<>>

HasKey(d, k) == k \in DOMAIN d

\* dict.setdefault(k, v)
setdefault(d, k, v) == IF HasKey(d, k) THEN d ELSE d @@ (k :> v)

\* `d.get(k) is True`
GetIsTrue(d, k) == HasKey(d, k) /\ d[k] = TRUE

\* Field value of a new instance: the keyword argument, else the field default.
FieldOr(d, k, default) == IF HasKey(d, k) THEN d[k] ELSE default

FlagKeys == {"is_staff", "is_superuser", "is_active"}

\* Every dictionary giving booleans to some of `keys`.
FlagDicts(keys) == UNION {[S -> BOOLEAN] : S \in SUBSET keys}

\* The dictionaries of `flagDicts`, each also with an address among `addrs`.
WithAddress(flagDicts, addrs) ==
    flagDicts \cup {f @@ ("address" :> a) : f \in flagDicts, a \in addrs}

-----------------------------------------------------------------------------
(* Rows, instances and the store's constraints *)

\* self.model(email=email, **extra_fields): a CustomUser instance; fields not
\* given take the field defaults (is_staff False, is_superuser False,
\* is_active True, address None).
NewUser(email, extra) ==
    [email        |-> email,
     password     |-> "",
     is_staff     |-> FieldOr(extra, "is_staff", FALSE),
     is_superuser |-> FieldOr(extra, "is_superuser", FALSE),
     is_active    |-> FieldOr(extra, "is_active", TRUE),
     address      |-> FieldOr(extra, "address", NULL)]

NoInstance == [pk |-> 0]

Instance(pk, row) == [pk |-> pk, row |-> row]

\* email = models.EmailField(unique=True): the store compares the stored
\* strings exactly (the default, case-sensitive collation).
EmailTaken(email, except) ==
    \E u \in DOMAIN users \ {except} : users[u].email = email

\* address = models.OneToOneField(Address, ...): at most one user per address.
AddressTaken(a, except) ==
    a # NULL /\ \E u \in DOMAIN users \ {except} : users[u].address = a

\* The INSERT or UPDATE of a row is refused by the store (IntegrityError).
Violates(row, except) ==
    \/ EmailTaken(row.email, except)
    \/ AddressTaken(row.address, except)
    \/ (row.address # NULL /\ row.address \notin addresses)

\* A function without the keys in `gone`.
Without(f, gone) == [k \in DOMAIN f \ gone |-> f[k]]

Call(op, args, status) == [op |-> op, args |-> args, status |-> status]

-----------------------------------------------------------------------------
(* The post_save hook *)

\* A plausible slip: the hook ignores `created`.
HookProvisions_anysave(inst, isNew) == inst.row.address = NULL

\* `if created and not instance.address:`
HookProvisions(inst, isNew) == isNew /\ inst.row.address = NULL

\* A plausible slip: the new address is never attached to the instance.
HookLinked_forgot(inst, a) == inst

\* `instance.address = address`
HookLinked(inst, a) == [inst EXCEPT !.row.address = a]

\* create_user_address up to its own save: runs when a save of a CustomUser has
\* sent post_save. It either returns at once, which ends the call, or creates
\* an Address row, attaches it and goes on to `instance.save()`.
PostSave ==
    /\ pc = "post_save"
    /\ IF HookProvisions(instance, created)
       THEN /\ addresses' = addresses \cup {nextAddrId}
            /\ nextAddrId' = nextAddrId + 1
            /\ made' = made \cup {nextAddrId}
            /\ instance' = HookLinked(instance, nextAddrId)
            /\ pc' = "resave"
            /\ UNCHANGED call
       ELSE /\ pc' = "idle"
            /\ call' = [call EXCEPT !.status = "ok"]
            /\ UNCHANGED <<addresses, nextAddrId, made, instance>>
    /\ UNCHANGED <<users, roles, perms, user_role, nextUserId, created, ret, ret_list>>

\* `instance.save()` inside the hook: the row of an existing pk is updated
\* from the instance and post_save is sent again, with created = False.
Resave ==
    /\ pc = "resave"
    /\ users' = [users EXCEPT ![instance.pk] = instance.row]
    /\ created' = FALSE
    /\ pc' = "post_save"
    /\ UNCHANGED <<addresses, roles, perms, user_role, nextUserId, nextAddrId,
                   call, instance, made, ret, ret_list>>

\* The process stops between two writes of a call: every save is committed
\* on its own (no transaction spans create_user and the hook), so the rows
\* written so far stay.
Crash ==
    /\ pc # "idle"
    /\ pc' = "idle"
    /\ call' = [call EXCEPT !.status = "crashed"]
    /\ UNCHANGED <<db, instance, created, made, ret, ret_list>>

-----------------------------------------------------------------------------
(* CustomUserManager *)

\* The body of create_user, entered as operation `op` called with `args`.
CreateUserBody(op, args, email, password, extra) ==
    IF ~Truthy(email)
    THEN /\ call' = Call(op, args, "ValueError")
         /\ instance' = NoInstance
         /\ made' = {}
         /\ UNCHANGED <<db, pc, created, ret, ret_list>>
    ELSE LET row == [NewUser(normalize_email(email), extra)
                        EXCEPT !.password = set_password(password)]
         IN  IF Violates(row, 0)
             THEN /\ call' = Call(op, args, "IntegrityError")
                  /\ instance' = NoInstance
                  /\ made' = {}
                  /\ UNCHANGED <<db, pc, created, ret, ret_list>>
             ELSE /\ users' = users @@ (nextUserId :> row)
                  /\ nextUserId' = nextUserId + 1
                  /\ instance' = Instance(nextUserId, row)
                  /\ created' = TRUE
                  /\ made' = {}
                  /\ pc' = "post_save"
                  /\ call' = Call(op, args, "running")
                  /\ UNCHANGED <<addresses, roles, perms, user_role,
                                 nextAddrId, ret, ret_list>>

\* CustomUserManager.create_user(email, password, **extra)
CreateUser(email, password, extra) ==
    /\ pc = "idle"
    /\ nextUserId <= MaxUsers
    /\ CreateUserBody("create_user", <<email, password, extra>>,
                      email, password, extra)

\* The three setdefault calls of create_superuser.
SuperuserFields(extra) ==
    setdefault(setdefault(setdefault(extra, "is_staff", TRUE),
                          "is_superuser", TRUE),
               "is_active", TRUE)

\* A plausible slip: the is_staff / is_superuser checks left out.
SuperuserRejected_never(fields) == FALSE

\* A plausible slip: only is_staff is checked.
SuperuserRejected_staffonly(fields) == ~GetIsTrue(fields, "is_staff")

\* `if extra_fields.get("is_staff") is not True: raise ...` and the same for
\* is_superuser.
SuperuserRejected(fields) ==
    ~GetIsTrue(fields, "is_staff") \/ ~GetIsTrue(fields, "is_superuser")

\* CustomUserManager.create_superuser(email, password, **extra)
CreateSuperuser(email, password, extra) ==
    /\ pc = "idle"
    /\ nextUserId <= MaxUsers
    /\ LET fields == SuperuserFields(extra)
           args == <<email, password, extra>>
       IN  IF SuperuserRejected(fields)
           THEN /\ call' = Call("create_superuser", args, "ValueError")
                /\ instance' = NoInstance
                /\ made' = {}
                /\ UNCHANGED <<db, pc, created, ret, ret_list>>
           ELSE CreateUserBody("create_superuser", args, email, password, fields)

-----------------------------------------------------------------------------
(* Later saves and deletions of rows (Model.save, Model.delete) *)

\* A later save of an existing user: the row is loaded, its password is set
\* and `save()` updates the row; post_save is sent with created = False.
SaveUser(u, password) ==
    /\ pc = "idle"
    /\ u \in DOMAIN users
    /\ LET row == [users[u] EXCEPT !.password = set_password(password)]
       IN  /\ users' = [users EXCEPT ![u] = row]
           /\ instance' = Instance(u, row)
    /\ created' = FALSE
    /\ made' = {}
    /\ pc' = "post_save"
    /\ call' = Call("save", <<u, password>>, "running")
    /\ UNCHANGED <<addresses, roles, perms, user_role, nextUserId, nextAddrId, ret, ret_list>>

\* What the deletion of user u removes from the Address table: nothing. The
\* foreign key is held by CustomUser, so on_delete=CASCADE makes the deletion
\* of an Address remove the user that references it, not the reverse.
AddressesDeletedWithUser(u) == {}

\* Deleting a user: its row and its rows of the role through table go.
DeleteUser(u) ==
    /\ pc = "idle"
    /\ u \in DOMAIN users
    /\ users' = Without(users, {u})
    /\ user_role' = {ur \in user_role : ur[1] # u}
    /\ addresses' = addresses \ AddressesDeletedWithUser(u)
    /\ instance' = Instance(u, users[u])
    /\ made' = {}
    /\ call' = Call("delete_user", <<u>>, "ok")
    /\ UNCHANGED <<roles, perms, nextUserId, nextAddrId, pc, created, ret, ret_list>>

\* The users removed by the deletion of Address a (on_delete=models.CASCADE).
UsersDeletedWithAddress(a) == {u \in DOMAIN users : users[u].address = a}

\* Deleting an Address row.
DeleteAddress(a) ==
    /\ pc = "idle"
    /\ a \in addresses
    /\ addresses' = addresses \ {a}
    /\ users' = Without(users, UsersDeletedWithAddress(a))
    /\ user_role' = {ur \in user_role : ur[1] \notin UsersDeletedWithAddress(a)}
    /\ instance' = NoInstance
    /\ made' = {}
    /\ call' = Call("delete_address", <<a>>, "ok")
    /\ UNCHANGED <<roles, perms, nextUserId, nextAddrId, pc, created, ret, ret_list>>

-----------------------------------------------------------------------------
(* The permission queries of CustomUser *)

\* self.role: the roles of user u, through the user-role table.
RolesOf(u) == {r \in DOMAIN roles : <<u, r>> \in user_role}

\* A plausible slip: the lookup runs over every role, not over self.role.
has_role_anyuser(u, role_name) ==
    \E r \in DOMAIN roles : roles[r].name = role_name

\* self.role.filter(name=role_name).exists()
has_role(u, role_name) ==
    \E r \in RolesOf(u) : roles[r].name = role_name

\* A plausible slip: the lookup runs over every role, not over self.role.
has_permission_anyrole(u, permission_name) ==
    \E r \in DOMAIN roles : \E q \in roles[r].permissions :
        perms[q].name_value = permission_name

\* self.role.filter(permissions__name_value=permission_name).exists(), for a
\* string permission_name (the parameter's annotated type): an inner join of
\* the user's roles with their permissions.
has_permission(u, permission_name) ==
    \E r \in RolesOf(u) : \E q \in roles[r].permissions :
        perms[q].name_value = permission_name

\* The rows of self.role.values_list("permissions__name_value"): the user's
\* roles LEFT OUTER JOINed with their permissions, as <<role, permission>>
\* pairs; a role without permissions gives one row whose permission side is
\* NULL (written 0).
JoinedRows(u) ==
    LET matched == {rq \in RolesOf(u) \X DOMAIN perms :
                        rq[2] \in roles[rq[1]].permissions}
        unmatched == {r \in RolesOf(u) : roles[r].permissions = {}}
    IN  matched \cup {<<r, NULL>> : r \in unmatched}

\* The selected column of a joined row.
NameValueOf(rq) == IF rq[2] = NULL THEN None ELSE perms[rq[2]].name_value

\* .distinct(): the distinct values of the selected column.
DistinctValues(u) == {NameValueOf(rq) : rq \in JoinedRows(u)}

\* list(...): the distinct values as a list; the query has no ORDER BY, so
\* any order may be returned.
get_all_permissions(u) ==
    LET S == DistinctValues(u)
        n == Cardinality(S)
    IN  {l \in [1..n -> S] : \A i, j \in 1..n : l[i] = l[j] => i = j}

HasRole(u, role_name) ==
    /\ pc = "idle"
    /\ u \in DOMAIN users
    /\ ret' = has_role(u, role_name)
    /\ call' = Call("has_role", <<u, role_name>>, "ok")
    /\ ret_list' = <<>>
    /\ UNCHANGED <<db, pc, instance, created, made>>

HasPermission(u, permission_name) ==
    /\ pc = "idle"
    /\ u \in DOMAIN users
    /\ ret' = has_permission(u, permission_name)
    /\ call' = Call("has_permission", <<u, permission_name>>, "ok")
    /\ ret_list' = <<>>
    /\ UNCHANGED <<db, pc, instance, created, made>>

GetAllPermissions(u) ==
    /\ pc = "idle"
    /\ u \in DOMAIN users
    /\ ret_list' \in get_all_permissions(u)
    /\ call' = Call("get_all_permissions", <<u>>, "ok")
    /\ ret' = FALSE
    /\ UNCHANGED <<db, pc, instance, created, made>>

-----------------------------------------------------------------------------
(* Inputs *)

\* "a@x" and its case variants, with and without surrounding blanks, a
\* string without "@", and the two missing e-mails.
Emails ==
    {NoneEmail, <<>>,
     <<"a", "@", "x">>, <<"A", "@", "x">>, <<"a", "@", "X">>,
     <<" ", "a", "@", "X", " ">>, <<"X", " ">>}

Passwords == {None, "pw"}

RoleNames == {"Admin", "Staff"}

NameValues == {"payrolls", "hst"}

-----------------------------------------------------------------------------
(* The user and address life cycle *)

Init ==
    /\ users = <<>>
    /\ addresses = {}
    /\ roles = <<>>
    /\ perms = <<>>
    /\ user_role = {}
    /\ nextUserId = 1
    /\ nextAddrId = 1
    /\ pc = "idle"
    /\ call = Call("none", <<>>, "ok")
    /\ instance = NoInstance
    /\ created = FALSE
    /\ made = {}
    /\ ret = FALSE
    /\ ret_list = <<>>

Next ==
    \/ \E email \in Emails, password \in Passwords,
          extra \in WithAddress({EmptyDict}, addresses) :
            CreateUser(email, password, extra)
    \/ PostSave
    \/ Resave
    \/ Crash
    \/ \E u \in DOMAIN users, password \in Passwords : SaveUser(u, password)
    \/ \E u \in DOMAIN users : DeleteUser(u)
    \/ \E a \in addresses : DeleteAddress(a)

Spec == Init /\ [][Next]_vars

-----------------------------------------------------------------------------
(* Superuser creation, over every choice of the three flags *)

SuperEmails == {NoneEmail, <<"a", "@", "x">>, <<"A", "@", "x">>}

NextSuper ==
    \/ \E email \in SuperEmails, extra \in FlagDicts(FlagKeys) :
            CreateSuperuser(email, "pw", extra)
    \/ PostSave
    \/ Resave
    \/ Crash
    \/ \E u \in DOMAIN users : DeleteUser(u)

SpecSuper == Init /\ [][NextSuper]_vars

-----------------------------------------------------------------------------
(* The permission queries, over every small role / permission assignment *)

\* The row of user pk once create_user and the hook have finished for it.
SettledUser(pk, email) ==
    [NewUser(normalize_email(email), EmptyDict)
        EXCEPT !.password = set_password("pw"), !.address = pk]

\* The users 1..n settled (user 1 as "a@x", the others as "A@x", ...) and no
\* call under way.
SettledUsers(n) ==
    /\ users = [pk \in 1..n |->
                  SettledUser(pk, IF pk = 1 THEN <<"a", "@", "x">>
                                  ELSE <<"A", "@", "x">>)]
    /\ addresses = 1..n
    /\ nextUserId = n + 1
    /\ nextAddrId = n + 1
    /\ pc = "idle"
    /\ call = Call("none", <<>>, "ok")
    /\ instance = NoInstance
    /\ created = FALSE
    /\ made = {}
    /\ ret = FALSE
    /\ ret_list = <<>>

\* Role rows with any names and no permissions, held by the users in any way.
InitRoles ==
    /\ SettledUsers(2)
    /\ perms = <<>>
    /\ roles \in [1..MaxRoles -> [name : RoleNames, permissions : {{}}]]
    /\ user_role \in SUBSET ({1, 2} \X (1..MaxRoles))

NextRoles ==
    \E u \in DOMAIN users, role_name \in RoleNames \cup {"Guest"} :
        HasRole(u, role_name)

SpecRoles == InitRoles /\ [][NextRoles]_vars

\* RolePermission rows with any name_value (NULL included), roles holding any
\* of them, and the one user holding any of the roles.
InitPerms ==
    /\ SettledUsers(1)
    /\ perms \in [1..MaxPerms -> [name_value : NameValues \cup {None}]]
    /\ roles \in [1..MaxRoles ->
                    [name : {"Admin"}, permissions : SUBSET (1..MaxPerms)]]
    /\ user_role \in SUBSET ({1} \X (1..MaxRoles))

NextPerms ==
    \/ \E u \in DOMAIN users, permission_name \in NameValues \cup {"clients"} :
            HasPermission(u, permission_name)
    \/ \E u \in DOMAIN users : GetAllPermissions(u)

SpecPerms == InitPerms /\ [][NextPerms]_vars

-----------------------------------------------------------------------------
(* Properties *)

\* The finished or running call is a user creation by `op` without an address
\* among its keyword arguments.
CreationWithoutAddress(c) ==
    /\ c.op \in {"create_user", "create_superuser"}
    /\ ~HasKey(c.args[3], "address")

\* C1: when create_user has completed for a user created without an address
\* (hook and the hook's re-save included), the call has created exactly one
\* Address row, that row exists, and the user's address link points to it.
C1_OneAddressCreatedAndLinked ==
    (pc = "idle" /\ CreationWithoutAddress(call) /\ call.status = "ok") =>
        /\ instance.pk \in DOMAIN users
        /\ Cardinality(made) = 1
        /\ made \subseteq addresses
        /\ users[instance.pk].address \in made

C1_Witness ==
    /\ pc = "idle"
    /\ CreationWithoutAddress(call)
    /\ call.status = "ok"
    /\ users[instance.pk].address \in made
    /\ Cardinality(DOMAIN users) = 2

\* C2: a create_user call whose email is None or "" ends in ValueError and
\* leaves the User table and the Address table as they were.
C2_MissingEmailPersistsNothing ==
    [][(/\ pc = "idle"
        /\ call'.op = "create_user"
        /\ call'.args[1] \in {NoneEmail, <<>>}) =>
          /\ call'.status = "ValueError"
          /\ pc' = "idle"
          /\ users' = users
          /\ addresses' = addresses]_vars

C2_Witness ==
    /\ pc = "idle"
    /\ call.op = "create_user"
    /\ call.status = "ValueError"
    /\ call.args[1] = <<>>
    /\ DOMAIN users # {}
    /\ addresses # {}

\* The part of an e-mail before its last "@" (the whole of it without "@").
LocalPart(e) ==
    IF RFind(e, "@") = 0 THEN e ELSE SubSeq(e, 1, RFind(e, "@") - 1)

\* The part of an e-mail after its last "@" (empty without "@").
DomainPart(e) ==
    IF RFind(e, "@") = 0 THEN <<>> ELSE SubSeq(e, RFind(e, "@") + 1, Len(e))

\* C3 as stated: no two User rows hold e-mails that differ only in letter
\* case, in the local part or in the domain.
C3_NoCaseVariants ==
    \A u, v \in DOMAIN users :
        u # v => LowerStr(users[u].email) # LowerStr(users[v].email)

\* The user row written by the create_user call that is running or has
\* just ended.
PersistedByCreateUserCall(u) ==
    /\ call.op = "create_user"
    /\ call.status \in {"running", "ok", "crashed"}
    /\ instance.pk = u
    /\ u \in DOMAIN users

\* C3 as amended: an e-mail given with an "@" is stored stripped of
\* surrounding blanks, with its local part as given and its domain in lower
\* case; an e-mail given without "@" is stored unchanged; and no two User rows
\* hold e-mails with the same local part and domains that differ only in
\* letter case.
C3_NoDomainCaseVariants ==
    /\ \A u \in DOMAIN users :
          PersistedByCreateUserCall(u) =>
            IF RFind(call.args[1], "@") # 0
            THEN /\ LocalPart(users[u].email) = LocalPart(Strip(call.args[1]))
                 /\ DomainPart(users[u].email) =
                        LowerStr(DomainPart(Strip(call.args[1])))
                 /\ RFind(users[u].email, "@") # 0
            ELSE users[u].email = call.args[1]
    /\ \A u, v \in DOMAIN users :
          u # v =>
            \/ LocalPart(users[u].email) # LocalPart(users[v].email)
            \/ LowerStr(DomainPart(users[u].email))
                  # LowerStr(DomainPart(users[v].email))

\* A create_user call with a variant of a stored e-mail that differs in the
\* case of the domain has been rejected as a duplicate.
C3_Witness ==
    /\ pc = "idle"
    /\ call.op = "create_user"
    /\ call.status = "IntegrityError"
    /\ ~HasKey(call.args[3], "address")
    /\ \E u \in DOMAIN users :
          /\ users[u].email # call.args[1]
          /\ LocalPart(users[u].email) = LocalPart(call.args[1])
          /\ users[u].email = <<"a", "@", "x">>
          /\ call.args[1] = <<"a", "@", "X">>

\* The caller passed flag k as False.
ExplicitlyFalse(extra, k) == HasKey(extra, k) /\ extra[k] = FALSE

\* C4: a create_superuser call given is_staff=False or is_superuser=False
\* ends in ValueError and creates no User row and no Address row.
C4_FalseElevationFlagRejected ==
    [][(/\ pc = "idle"
        /\ call'.op = "create_superuser"
        /\ \/ ExplicitlyFalse(call'.args[3], "is_staff")
           \/ ExplicitlyFalse(call'.args[3], "is_superuser")) =>
          /\ call'.status = "ValueError"
          /\ pc' = "idle"
          /\ users' = users
          /\ addresses' = addresses]_vars

C4_Witness ==
    /\ pc = "idle"
    /\ call.op = "create_superuser"
    /\ call.status = "ValueError"
    /\ call.args[1] = <<"A", "@", "x">>
    /\ ~ExplicitlyFalse(call.args[3], "is_staff")
    /\ ExplicitlyFalse(call.args[3], "is_superuser")
    /\ DOMAIN users # {}

\* The user persisted by the create_superuser call that is running or has
\* just ended.
PersistedBySuperuserCall(u) ==
    /\ call.op = "create_superuser"
    /\ call.status \in {"running", "ok", "crashed"}
    /\ instance.pk = u
    /\ u \in DOMAIN users

\* C5 as stated: a user persisted by create_superuser has is_staff,
\* is_superuser and is_active all true, whatever the caller passed.
C5_AllThreeFlagsTrue ==
    \A u \in DOMAIN users :
        PersistedBySuperuserCall(u) =>
            users[u].is_staff /\ users[u].is_superuser /\ users[u].is_active

\* C5 as amended: a user persisted by create_superuser has is_staff and
\* is_superuser true; its is_active is the value the caller passed, and true
\* when the caller passed none.
C5_ElevationFlagsTrueActiveDefaulted ==
    \A u \in DOMAIN users :
        PersistedBySuperuserCall(u) =>
            /\ users[u].is_staff
            /\ users[u].is_superuser
            /\ users[u].is_active =
                  (IF HasKey(call.args[3], "is_active")
                   THEN call.args[3]["is_active"] ELSE TRUE)

C5_Witness ==
    /\ pc = "idle"
    /\ call.status = "ok"
    /\ PersistedBySuperuserCall(instance.pk)
    /\ ExplicitlyFalse(call.args[3], "is_active")
    /\ ~users[instance.pk].is_active
    /\ users[instance.pk].is_staff

\* C6: has_role(n) on user u returns true exactly when a role named n is
\* among the roles u holds, and the call changes no stored row.
C6_HasRoleIffHeldRoleNamed ==
    [][(pc = "idle" /\ call'.op = "has_role") =>
          /\ ret' = (\E ur \in user_role :
                        /\ ur[1] = call'.args[1]
                        /\ roles[ur[2]].name = call'.args[2])
          /\ db' = db]_vars

\* has_role returned true for a role that the other user does not hold, and
\* the user also holds a role of another name.
C6_Witness ==
    /\ call.op = "has_role"
    /\ ret = TRUE
    /\ \E r \in DOMAIN roles :
          /\ <<call.args[1], r>> \in user_role
          /\ roles[r].name # call.args[2]
    /\ \A ur \in user_role :
          ur[1] # call.args[1] => roles[ur[2]].name # call.args[2]

\* C7: has_permission(p) on user u returns true exactly when some role u
\* holds has a permission whose name_value is p.
C7_HasPermissionIffHeldRoleGrants ==
    (pc = "idle" /\ call.op = "has_permission") =>
        ret = (\E ur \in user_role :
                  /\ ur[1] = call.args[1]
                  /\ \E q \in roles[ur[2]].permissions :
                        perms[q].name_value = call.args[2])

\* has_permission returned false although a role the user does not hold has
\* a permission of that name_value, and the user holds some other permission.
C7_Witness ==
    /\ call.op = "has_permission"
    /\ ret = FALSE
    /\ \E r \in DOMAIN roles :
          /\ <<call.args[1], r>> \notin user_role
          /\ \E q \in roles[r].permissions : perms[q].name_value = call.args[2]
    /\ \E r \in DOMAIN roles :
          /\ <<call.args[1], r>> \in user_role
          /\ roles[r].permissions # {}

\* C8: get_all_permissions() on user u returns a list without repetitions
\* whose entries are exactly the name_values of the permissions of the roles
\* u holds (so nothing for a role without permissions).
C8_ExactlyTheHeldNameValues ==
    (pc = "idle" /\ call.op = "get_all_permissions") =>
        /\ \A i, j \in DOMAIN ret_list : ret_list[i] = ret_list[j] => i = j
        /\ {ret_list[i] : i \in DOMAIN ret_list} =
              {perms[q].name_value :
                  q \in UNION {roles[ur[2]].permissions :
                                  ur \in {x \in user_role : x[1] = call.args[1]}}}

\* C9: once a user linked to an Address has been deleted, that Address row
\* no longer exists.
C9_UserDeletionRemovesAddress ==
    (pc = "idle" /\ call.op = "delete_user" /\ instance.row.address # NULL) =>
        instance.row.address \notin addresses

\* The call under way is the creation of user u.
BeingCreated(u) ==
    /\ pc # "idle"
    /\ call.op \in {"create_user", "create_superuser"}
    /\ instance.pk = u

\* C10: a creation without an address that stops before the hook's re-save
\* leaves its user persisted with no address link; and a user that is
\* persisted with no address link, and is not the one being created, keeps
\* having none through every later step (a later save of it included).
C10_UnlinkedUserStaysUnlinked ==
    [][/\ (/\ pc # "idle"
           /\ created
           /\ CreationWithoutAddress(call)
           /\ call'.status = "crashed") =>
             /\ instance'.pk \in DOMAIN users'
             /\ users'[instance'.pk].address = NULL
       /\ \A u \in DOMAIN users :
             (users[u].address = NULL /\ ~BeingCreated(u) /\ u \in DOMAIN users')
                => users'[u].address = NULL]_vars

\* A later save of a user left without an address has completed, and the
\* user still has none.
C10_Witness ==
    /\ pc = "idle"
    /\ call.op = "save"
    /\ call.status = "ok"
    /\ instance.pk \in DOMAIN users
    /\ users[instance.pk].address = NULL

=============================================================================
